---- MODULE Spec2Model ----
(***************************************************************************)
(* Model of the buzzline mortality pipeline:                               *)
(*   producers/producer_mortality_anjana.py  (message generator)           *)
(*   consumers/consumer_mortality_anjana.py  (aggregating consumer)        *)
(*   consumers/project_consumer_anjana.py    (offset-tailing consumer)     *)
(* The live JSONL file data/project_live.json is the only shared object.   *)
(* Rates are integers standing for Python floats; a mean is kept as the    *)
(* pair <<sum, count>> so that no rounding is introduced by the model.     *)
(***************************************************************************)
EXTENDS Integers, Sequences, FiniteSets, TLC

\* ------------------------------------------------------------------ bounds
\* Longest live file written by an arbitrary writer (env = "any").
MaxLines == 3
\* Number of messages the producer emits (env = "producer").
MaxMessages == 25

\* ------------------------------------------------------- program constants
\* deque(maxlen=20)
WindowCapacity == 20
\* is_high_mortality = rate >= 100
HighThreshold == 100

HeartDisease == "Heart disease"

\* ------------------------------------------------------------ JSON values
\* A JSON value found under "rate" / "se": a number, a non-numeric string,
\* null, or no such key in the object.
Num(n) == [k |-> "num", v |-> n]
BadStr == [k |-> "str", v |-> 0]
Null == [k |-> "null", v |-> 0]
Absent == [k |-> "absent", v |-> 0]

\* One line of the live file.  kind "obj" is a JSON object, "garbage" is
\* text json.loads rejects, "blank" is a line that strips to "".
\* A string field that is absent holds "None" (what dict.get returns,
\* as formatted by an f-string); has_message tells whether the key
\* "message" exists.
Obj(author, timestamp, region, sex, cause, rate, se, has_message, keyword) ==
    [kind |-> "obj", author |-> author, timestamp |-> timestamp,
     region |-> region, sex |-> sex, cause |-> cause, rate |-> rate,
     se |-> se, has_message |-> has_message, keyword_mentioned |-> keyword]

Garbage ==
    [kind |-> "garbage", author |-> "None", timestamp |-> "None",
     region |-> "None", sex |-> "None", cause |-> "None", rate |-> Absent,
     se |-> Absent, has_message |-> FALSE, keyword_mentioned |-> "None"]

Blank == [Garbage EXCEPT !.kind = "blank"]

\* ------------------------------------------------------------- the producer
\* load_mortality_data: the rows of the CSV kept for the three regions.
mortality_data ==
    << [region |-> "HHS Region 01", sex |-> "Male", cause |-> HeartDisease,
        rate |-> 150, se |-> 1],
       [region |-> "HHS Region 01", sex |-> "Female", cause |-> HeartDisease,
        rate |-> 100, se |-> 1],
       [region |-> "HHS Region 01", sex |-> "Male", cause |-> HeartDisease,
        rate |-> 40, se |-> 2] >>

\* A CSV with a row whose Rate is below every band (float("-5") is a float).
csv_negative_rate ==
    << [region |-> "HHS Region 02", sex |-> "Male", cause |-> HeartDisease,
        rate |-> 150, se |-> 1],
       [region |-> "HHS Region 02", sex |-> "Female", cause |-> HeartDisease,
        rate |-> -5, se |-> 1] >>

\* The same rows in the other order.
csv_negative_first ==
    << csv_negative_rate[2], csv_negative_rate[1] >>

\* The CSV files the generator is run on.
CsvFiles == {mortality_data, csv_negative_rate, csv_negative_first}

\* The for loop over RATE_THRESHOLDS: the first band whose [min, max) holds
\* the rate; when no band does, the loop ends without assigning and
\* efficiency keeps the value the previous record left in it.
RateBand(rate, previous) ==
    IF rate >= 100 THEN "High"
    ELSE IF 50 <= rate /\ rate < 100 THEN "Medium"
    ELSE IF 0 <= rate /\ rate < 50 THEN "Low"
    ELSE previous

\* strftime("%H") / ("%M"): two digits.
TwoDigits(n) == IF n < 10 THEN "0" \o ToString(n) ELSE ToString(n)

\* base_time.replace(minute=count % 60, hour=(count // 60) % 24), formatted
\* "%Y-%m-%d %H:%M:%S".
TimestampStr(count) ==
    "2025-09-27 " \o TwoDigits((count \div 60) % 24) \o ":"
        \o TwoDigits(count % 60) \o ":00"

\* The same datetime as minutes after 2025-09-27 00:00:00: replace() sets the
\* hour and the minute only, the date stays that of base_time.
TimestampMinutes(count) == ((count \div 60) % 24) * 60 + (count % 60)

\* region.replace(' ', '_') for the regions of the CSV.
AuthorOf(region) ==
    IF region = "HHS Region 01" THEN "HHS_Region_01"
    ELSE IF region = "HHS Region 02" THEN "HHS_Region_02"
    ELSE IF region = "HHS Region 03" THEN "HHS_Region_03"
    ELSE region

\* ------------------------------------------------ lines of any other writer
\* What a writer other than the producer may append to the live file.
AnyLines ==
    { Obj("A", "t1", "HHS Region 01", "Male", HeartDisease, Num(100), Num(1), TRUE, "High"),
      Obj("A", "t1", "HHS Region 02", "Female", HeartDisease, Num(60), Num(1), TRUE, "Medium"),
      Obj("B", "t1", "HHS Region 02", "Male", "Cancer", Num(150), Num(2), TRUE, "High"),
      Obj("C", "t1", "HHS Region 01", "Female", HeartDisease, Absent, Num(1), TRUE, "None"),
      Obj("C", "t2", "HHS Region 01", "Female", HeartDisease, BadStr, Null, TRUE, "High"),
      Obj("D", "t1", "HHS Region 01", "Male", HeartDisease, Num(110), Num(1), FALSE, "High"),
      Garbage,
      Blank }

\* ------------------------------------------------------------------ state
VARIABLES
    program,             \* which consumer process runs
    env,                 \* who writes the live file: "producer" or "any"
    file_exists,         \* DATA_FILE.exists()
    file,                \* the lines of DATA_FILE
    message_count,       \* producer: message_count
    efficiency,          \* producer: efficiency, "unbound" before the first match
    csv_rows,            \* producer: mortality_data, the rows loaded from the CSV
    generated,           \* producer: the message the generator yielded last
    \* consumer_mortality
    pc,                  \* position in main / read_latest_messages / process_and_store_message
    outcome,             \* "running", or how the try block of main was left
    lines,               \* read_latest_messages: lines
    li,                  \* read_latest_messages: index of the line in the for loop
    new_messages,        \* read_latest_messages: new_messages
    messages,            \* main: the messages "for message in messages" has
                         \* not finished with; the head is the current one
    data,                \* process_and_store_message: data
    processed_messages,
    mortality_rates,
    cause_gender_stats,
    cause_region_stats,
    high_mortality_count,
    db_rows,             \* rows of table mortality_analytics
    \* history of the run, read by the properties only
    returned,            \* identities returned by read_latest_messages, in order
    ingested,            \* records extract_mortality_data accepted, in order
    appended,            \* per window key, every value ever appended
    \* project_consumer
    ppc,                 \* position in main
    last_pos,
    plines,              \* main: lines
    pli,                 \* main: index of the line in the for loop
    poutcome,            \* "running", or how main ended
    stored,              \* rows of table messages
    keyword_counts,      \* table keyword_counts
    \* the dashboard of consumer_mortality
    figure               \* what animate_dashboard drew last

producerVars == <<message_count, efficiency, generated>>
fileVars == <<file_exists, file>>
readVars == <<lines, li, new_messages>>
aggVars == <<mortality_rates, cause_gender_stats, cause_region_stats,
             high_mortality_count, db_rows>>
histVars == <<returned, ingested, appended>>
mortalityVars == <<pc, outcome, readVars, messages, data,
                   processed_messages, aggVars, histVars>>
projectVars == <<ppc, poutcome, last_pos, plines, pli, stored, keyword_counts>>
vars == <<program, env, csv_rows, figure, fileVars, producerVars, mortalityVars, projectVars>>

\* ------------------------------------------------------------ value sets
Causes == {HeartDisease, "Cancer"}
Regions == {"HHS Region 01", "HHS Region 02"}
Sexes == {"Male", "Female"}
\* Keys of mortality_rates: (cause, region) and (cause, sex) share one dict.
WindowKeys == Causes \X (Regions \cup Sexes)
Keywords == {"High", "Medium", "Low"}

\* What extract_mortality_data returns when float() raises.
None ==
    [ok |-> FALSE, region |-> "None", sex |-> "None", cause |-> "None",
     rate |-> 0, se |-> 0, timestamp |-> "None", author |-> "None",
     keyword_mentioned |-> "None", has_message |-> FALSE]

\* The record the generator is at: "for record in mortality_data" inside
\* "while True" goes round the rows for ever.
CurrentRecord(count) == csv_rows[(count % Len(csv_rows)) + 1]

\* The message generate_mortality_messages yields as number count (from 0).
GeneratedMessage(count, previous) ==
    LET record == CurrentRecord(count)
    IN  Obj(AuthorOf(record.region), TimestampStr(count), record.region,
            record.sex, record.cause, Num(record.rate), Num(record.se),
            TRUE, RateBand(record.rate, previous))

\* No figure content: animate_dashboard has not run.
NoFigure ==
    [has_bars |-> FALSE, bars |-> [gender \in Sexes |-> <<0, 1>>],
     series |-> [region \in Regions |-> <<>>], high |-> -1]

\* --------------------------------------------- consumer_mortality helpers
RECURSIVE SumSeq(_)
SumSeq(s) == IF s = <<>> THEN 0 ELSE Head(s) + SumSeq(Tail(s))

\* f"{message.get('author')}_{message.get('timestamp')}"
MsgId(message) == message.author \o "_" \o message.timestamp

IsNewMessageAlways(msg_id, processed) == TRUE

\* msg_id not in processed_messages
IsNewMessage(msg_id, processed) == msg_id \notin processed

\* float(message.get(key, 0)): a number converts to itself, a missing key
\* gives the default 0, a non-numeric string raises ValueError and null
\* raises TypeError.
FloatRaises(x) == x.k \in {"str", "null"}
FloatOf(x) == IF x.k = "num" THEN x.v ELSE 0

extract_mortality_data(message) ==
    IF FloatRaises(message.rate) \/ FloatRaises(message.se)
    THEN None
    ELSE [ok |-> TRUE, region |-> message.region, sex |-> message.sex,
          cause |-> message.cause, rate |-> FloatOf(message.rate),
          se |-> FloatOf(message.se), timestamp |-> message.timestamp,
          author |-> message.author,
          keyword_mentioned |-> message.keyword_mentioned,
          has_message |-> message.has_message]

IsHighMortalityStrict(rate) == rate > HighThreshold

\* is_high_mortality = rate >= 100
IsHighMortality(rate) == rate >= HighThreshold

DequeAppendUnbounded(d, x) == Append(d, x)

\* deque(maxlen=20).append: a full deque drops its oldest element.
DequeAppend(d, x) ==
    IF Len(d) >= WindowCapacity THEN Append(Tail(d), x) ELSE Append(d, x)

ListAppendKeepsTwo(list, x) ==
    IF Len(list) >= 2 THEN Append(Tail(list), x) ELSE Append(list, x)

\* list.append on an entry of cause_region_stats / cause_gender_stats
ListAppend(list, x) == Append(list, x)

\* The value animate_dashboard plots for one gender of "Heart disease":
\* sum(list) / len(list), or 0 for an empty or missing list; kept as
\* <<numerator, denominator>>.
GenderRate(stats, gender) ==
    LET list == stats[<<HeartDisease, gender>>]
    IN  IF list # <<>> THEN <<SumSeq(list), Len(list)>> ELSE <<0, 1>>

DbRowStrict(d) ==
    [region |-> d.region, sex |-> d.sex, cause |-> d.cause, rate |-> d.rate,
     se |-> d.se, timestamp |-> d.timestamp,
     keyword_mentioned |-> d.keyword_mentioned,
     is_high_mortality |-> d.rate > HighThreshold]

\* The row process_and_store_message inserts into mortality_analytics.
DbRow(d) ==
    [region |-> d.region, sex |-> d.sex, cause |-> d.cause, rate |-> d.rate,
     se |-> d.se, timestamp |-> d.timestamp,
     keyword_mentioned |-> d.keyword_mentioned,
     is_high_mortality |-> IsHighMortality(d.rate)]

\* -------------------------------------------------------------------- Init
\* Before the first statement of either main: nothing generated, nothing
\* read, every collection empty.
InitFresh ==
    /\ program \in {"consumer_mortality", "project_consumer"}
    /\ env \in {"producer", "any"}
    /\ file_exists = FALSE
    /\ file = <<>>
    /\ message_count = 0
    /\ efficiency = "unbound"
    /\ generated = Blank
    /\ figure = NoFigure
    /\ pc = "poll"
    /\ outcome = "running"
    /\ lines = <<>>
    /\ li = 1
    /\ new_messages = <<>>
    /\ messages = <<>>
    /\ data = None
    /\ processed_messages = {}
    /\ mortality_rates = [key \in WindowKeys |-> <<>>]
    /\ cause_gender_stats = [key \in Causes \X Sexes |-> <<>>]
    /\ cause_region_stats = [key \in Causes \X Regions |-> <<>>]
    /\ high_mortality_count = 0
    /\ db_rows = <<>>
    /\ returned = <<>>
    /\ ingested = <<>>
    /\ appended = [key \in WindowKeys |-> <<>>]
    /\ ppc = "read"
    /\ poutcome = "running"
    /\ last_pos = 0
    /\ plines = <<>>
    /\ pli = 1
    /\ stored = <<>>
    /\ keyword_counts = [kw \in Keywords |-> 0]

Init == InitFresh /\ csv_rows = mortality_data

\* ------------------------------------------------------ writers of the file
\* One turn of the loops of generate_mortality_messages, lines 119-170: the
\* next message is built and yielded.  When no band holds the rate of the
\* very first record, efficiency is unbound at line 159 and the generator
\* ends with UnboundLocalError: no further message.
GeneratorStep ==
    /\ RateBand(CurrentRecord(message_count).rate, efficiency) # "unbound"
    /\ generated' = GeneratedMessage(message_count, efficiency)
    /\ efficiency' = RateBand(CurrentRecord(message_count).rate, efficiency)
    /\ message_count' = message_count + 1

\* producer main, STEP 4: one turn of the emit loop appends the next
\* generated message to the live file (creating it).
Produce ==
    /\ env = "producer"
    /\ message_count < MaxMessages
    /\ GeneratorStep
    /\ file' = Append(file, generated')
    /\ file_exists' = TRUE
    /\ UNCHANGED <<program, env, csv_rows, figure, mortalityVars, projectVars>>

\* Any other writer appends one whole line.
AppendLine ==
    /\ env = "any"
    /\ Len(file) < MaxLines
    /\ \E l \in AnyLines : file' = Append(file, l)
    /\ file_exists' = TRUE
    /\ UNCHANGED <<program, env, csv_rows, figure, producerVars, mortalityVars, projectVars>>

\* ------------------------------------------ consumer_mortality: the actions
Mortality == program = "consumer_mortality"

\* Keys of the two windows a "Heart disease" record is appended to.
RegionKey(d) == <<HeartDisease, d.region>>
SexKeyIsRegion(d) == <<HeartDisease, d.region>>
SexKey(d) == <<HeartDisease, d.sex>>

\* if cause == "Heart disease"
TracksWindow(d) == d.cause = HeartDisease

RECURSIVE IdsOf(_)
IdsOf(ms) == IF ms = <<>> THEN <<>> ELSE <<MsgId(Head(ms))>> \o IdsOf(Tail(ms))

\* read_latest_messages returns new_messages to main, which starts its
\* for loop over them; the locals of the call are gone.
ReturnMessages ==
    /\ messages' = new_messages
    /\ returned' = returned \o IdsOf(new_messages)
    /\ lines' = <<>>
    /\ li' = 1
    /\ new_messages' = <<>>
    /\ pc' = "for"

\* main: messages = read_latest_messages(DATA_FILE), up to f.readlines().
\* An absent file returns [] at once.
ReadOpen ==
    /\ Mortality /\ pc = "poll"
    /\ IF ~file_exists
       THEN /\ messages' = <<>>
            /\ pc' = "for"
            /\ UNCHANGED readVars
       ELSE /\ lines' = file
            /\ li' = 1
            /\ new_messages' = <<>>
            /\ pc' = "scan"
            /\ UNCHANGED messages
    /\ UNCHANGED <<program, env, csv_rows, figure, fileVars, producerVars, outcome, data,
                   processed_messages, aggVars, histVars, projectVars>>

\* The turns of "for line in lines" that change nothing (a blank line, a
\* line whose msg_id is already in processed_messages) are passed over:
\* the index of the first line from li on that is a new message or that
\* json.loads rejects, Len(lines) + 1 when there is none.
RECURSIVE NextEffective(_, _, _)
NextEffective(ls, i, processed) ==
    IF i > Len(ls) THEN i
    ELSE IF ls[i].kind = "garbage" THEN i
    ELSE IF ls[i].kind = "obj" /\ IsNewMessage(MsgId(ls[i]), processed) THEN i
    ELSE NextEffective(ls, i + 1, processed)

\* for line in lines, up to new_messages.append(message) for the next
\* message that is new.
ScanAppend ==
    /\ Mortality /\ pc = "scan"
    /\ LET j == NextEffective(lines, li, processed_messages) IN
         /\ j <= Len(lines)
         /\ lines[j].kind = "obj"
         /\ new_messages' = Append(new_messages, lines[j])
         /\ li' = j
    /\ pc' = "mark"
    /\ UNCHANGED <<program, env, csv_rows, figure, fileVars, producerVars, outcome, lines,
                   messages, data, processed_messages, aggVars, histVars,
                   projectVars>>

\* json.loads raises on a line: the exception leaves the for loop, the
\* except clause around the whole loop prints it and the function
\* returns the messages it has collected so far.
ScanRaises ==
    /\ Mortality /\ pc = "scan"
    /\ LET j == NextEffective(lines, li, processed_messages) IN
         /\ j <= Len(lines)
         /\ lines[j].kind = "garbage"
    /\ ReturnMessages
    /\ UNCHANGED <<program, env, csv_rows, figure, fileVars, producerVars, outcome, data, processed_messages, aggVars, ingested,
                   appended, projectVars>>

\* processed_messages.add(msg_id)
ScanMark ==
    /\ Mortality /\ pc = "mark"
    /\ processed_messages' = processed_messages \cup {MsgId(lines[li])}
    /\ li' = li + 1
    /\ pc' = "scan"
    /\ UNCHANGED <<program, env, csv_rows, figure, fileVars, producerVars, outcome, lines,
                   new_messages, messages, data, aggVars, histVars,
                   projectVars>>

\* The for loop over lines is exhausted: return new_messages.
ScanReturn ==
    /\ Mortality /\ pc = "scan"
    /\ NextEffective(lines, li, processed_messages) > Len(lines)
    /\ ReturnMessages
    /\ UNCHANGED <<program, env, csv_rows, figure, fileVars, producerVars, outcome, data, processed_messages, aggVars, ingested,
                   appended, projectVars>>

\* process_and_store_message, lines 86-99: extraction; None returns.
ProcessBegin ==
    /\ Mortality /\ pc = "for" /\ messages # <<>>
    /\ LET d == extract_mortality_data(Head(messages)) IN
       IF d.ok
       THEN /\ data' = d
            /\ ingested' = Append(ingested, d)
            /\ pc' = "win_region"
            /\ UNCHANGED messages
       ELSE /\ messages' = Tail(messages)
            /\ UNCHANGED <<data, ingested, pc>>
    /\ UNCHANGED <<program, env, csv_rows, figure, fileVars, producerVars, outcome, readVars,
                   processed_messages, aggVars, returned, appended,
                   projectVars>>

\* line 103: mortality_rates[("Heart disease", region)].append(rate)
WinRegion ==
    /\ Mortality /\ pc = "win_region"
    /\ IF TracksWindow(data)
       THEN /\ mortality_rates' =
                [mortality_rates EXCEPT ![RegionKey(data)] = DequeAppend(@, data.rate)]
            /\ appended' = [appended EXCEPT ![RegionKey(data)] = Append(@, data.rate)]
            /\ pc' = "win_sex"
       ELSE /\ pc' = "stat_region"
            /\ UNCHANGED <<mortality_rates, appended>>
    /\ UNCHANGED <<program, env, csv_rows, figure, fileVars, producerVars, outcome, readVars,
                   messages, data, processed_messages, cause_gender_stats,
                   cause_region_stats, high_mortality_count, db_rows,
                   returned, ingested, projectVars>>

\* line 104: mortality_rates[("Heart disease", sex)].append(rate)
WinSex ==
    /\ Mortality /\ pc = "win_sex"
    /\ mortality_rates' =
           [mortality_rates EXCEPT ![SexKey(data)] = DequeAppend(@, data.rate)]
    /\ appended' = [appended EXCEPT ![SexKey(data)] = Append(@, data.rate)]
    /\ pc' = "stat_region"
    /\ UNCHANGED <<program, env, csv_rows, figure, fileVars, producerVars, outcome, readVars,
                   messages, data, processed_messages, cause_gender_stats,
                   cause_region_stats, high_mortality_count, db_rows,
                   returned, ingested, projectVars>>

\* line 107: cause_region_stats[cause][region].append(rate)
StatRegion ==
    /\ Mortality /\ pc = "stat_region"
    /\ cause_region_stats' =
           [cause_region_stats EXCEPT ![<<data.cause, data.region>>] =
                ListAppend(@, data.rate)]
    /\ pc' = "stat_gender"
    /\ UNCHANGED <<program, env, csv_rows, figure, fileVars, producerVars, outcome, readVars,
                   messages, data, processed_messages, mortality_rates,
                   cause_gender_stats, high_mortality_count, db_rows,
                   histVars, projectVars>>

\* line 108: cause_gender_stats[cause][sex].append(rate)
StatGender ==
    /\ Mortality /\ pc = "stat_gender"
    /\ cause_gender_stats' =
           [cause_gender_stats EXCEPT ![<<data.cause, data.sex>>] =
                ListAppend(@, data.rate)]
    /\ pc' = "high"
    /\ UNCHANGED <<program, env, csv_rows, figure, fileVars, producerVars, outcome, readVars,
                   messages, data, processed_messages, mortality_rates,
                   cause_region_stats, high_mortality_count, db_rows,
                   histVars, projectVars>>

\* lines 109-111: if is_high_mortality: high_mortality_count += 1
CountHigh ==
    /\ Mortality /\ pc = "high"
    /\ high_mortality_count' =
           IF IsHighMortality(data.rate) THEN high_mortality_count + 1
           ELSE high_mortality_count
    /\ pc' = "db"
    /\ UNCHANGED <<program, env, csv_rows, figure, fileVars, producerVars, outcome, readVars,
                   messages, data, processed_messages, mortality_rates,
                   cause_gender_stats, cause_region_stats, db_rows,
                   histVars, projectVars>>

\* lines 114-126: the INSERT is committed.
DbInsert ==
    /\ Mortality /\ pc = "db"
    /\ db_rows' = Append(db_rows, DbRow(data))
    /\ pc' = "print"
    /\ UNCHANGED <<program, env, csv_rows, figure, fileVars, producerVars, outcome, readVars,
                   messages, data, processed_messages, mortality_rates,
                   cause_gender_stats, cause_region_stats,
                   high_mortality_count, histVars, projectVars>>

\* lines 114-126: sqlite3 raises (connect, execute or commit); the
\* exception leaves process_and_store_message and the while loop of main,
\* whose "except Exception" prints it; main then ends.
DbInsertFails ==
    /\ Mortality /\ pc = "db"
    /\ pc' = "exited"
    /\ outcome' = "db_error"
    /\ UNCHANGED <<program, env, csv_rows, figure, fileVars, producerVars, readVars, messages, data, processed_messages, aggVars, histVars,
                   projectVars>>

\* lines 128-129: the print reads message['message']; a message without
\* that key raises KeyError, which ends main like any other Exception.
\* Otherwise the call returns and the for loop of main moves on.
PrintMessage ==
    /\ Mortality /\ pc = "print"
    /\ IF data.has_message
       THEN /\ messages' = Tail(messages)
            /\ data' = None
            /\ pc' = "for"
            /\ UNCHANGED outcome
       ELSE /\ pc' = "exited"
            /\ outcome' = "key_error"
            /\ UNCHANGED <<messages, data>>
    /\ UNCHANGED <<program, env, csv_rows, figure, fileVars, producerVars, readVars, processed_messages, aggVars, histVars, projectVars>>

\* main: the for loop over messages is exhausted.
ForDone ==
    /\ Mortality /\ pc = "for" /\ messages = <<>>
    /\ pc' = "pause"
    /\ UNCHANGED <<program, env, csv_rows, figure, fileVars, producerVars, outcome, readVars,
                   messages, data, processed_messages, aggVars, histVars,
                   projectVars>>

\* main: plt.pause(0.1); time.sleep(2); back to the top of the while loop.
Pause ==
    /\ Mortality /\ pc = "pause"
    /\ pc' = "poll"
    /\ UNCHANGED <<program, env, csv_rows, figure, fileVars, producerVars, outcome, readVars,
                   messages, data, processed_messages, aggVars, histVars,
                   projectVars>>

\* KeyboardInterrupt is raised wherever main currently is; it is no
\* Exception, so only "except KeyboardInterrupt" of main catches it.
Interrupt ==
    /\ Mortality /\ pc # "exited"
    /\ pc' = "exited"
    /\ outcome' = "interrupted"
    /\ UNCHANGED <<program, env, csv_rows, figure, fileVars, producerVars, readVars, messages, data, processed_messages, aggVars, histVars,
                   projectVars>>

MortalityNext ==
    \/ ReadOpen \/ ScanAppend \/ ScanRaises \/ ScanMark \/ ScanReturn
    \/ ProcessBegin \/ WinRegion \/ WinSex \/ StatRegion \/ StatGender
    \/ CountHigh \/ DbInsert \/ DbInsertFails \/ PrintMessage
    \/ ForDone \/ Pause \/ Interrupt

\* -------------------------------------------------------- project_consumer
Project == program = "project_consumer"

\* Bytes one line takes in the file, newline included.
LineBytes(l) == IF l.kind = "blank" THEN 1 ELSE IF l.kind = "garbage" THEN 2 ELSE 3

RECURSIVE FileBytes(_)
FileBytes(f) == IF f = <<>> THEN 0 ELSE LineBytes(Head(f)) + FileBytes(Tail(f))

\* f.seek(pos); f.readlines(): the lines from byte pos on.  A position
\* inside a line yields the rest of that line, which is no JSON document.
RECURSIVE ReadFrom(_, _)
ReadFrom(f, pos) ==
    IF f = <<>> THEN <<>>
    ELSE IF pos <= 0 THEN f
    ELSE IF pos >= LineBytes(Head(f)) THEN ReadFrom(Tail(f), pos - LineBytes(Head(f)))
    ELSE <<Garbage>> \o Tail(f)

\* f.tell() after readlines(): the end of the file, or the position
\* sought when that lies beyond the end.
TellAfterRead(f, pos) == IF pos > FileBytes(f) THEN pos ELSE FileBytes(f)

\* The row store_message inserts into table messages.
StoredRow(message) ==
    [author |-> message.author, timestamp |-> message.timestamp,
     keyword_mentioned |-> message.keyword_mentioned]

\* main: lines, last_pos = read_new_messages(DATA_FILE, last_pos).
\* open() of an absent file raises FileNotFoundError, which main (catching
\* KeyboardInterrupt only) does not handle: the process ends.
ProjectRead ==
    /\ Project /\ ppc = "read"
    /\ IF ~file_exists
       THEN /\ ppc' = "exited"
            /\ poutcome' = "file_not_found"
            /\ UNCHANGED <<last_pos, plines, pli>>
       ELSE /\ plines' = ReadFrom(file, last_pos)
            /\ last_pos' = TellAfterRead(file, last_pos)
            /\ pli' = 1
            /\ ppc' = "store"
            /\ UNCHANGED poutcome
    /\ UNCHANGED <<program, env, csv_rows, figure, fileVars, producerVars, mortalityVars,
                   stored, keyword_counts>>

\* One turn of "for line in lines": a blank line is skipped, json.loads
\* raising ends the process, an object is stored by store_message.
ProjectLine ==
    /\ Project /\ ppc = "store" /\ pli <= Len(plines)
    /\ LET line == plines[pli] IN
       CASE line.kind = "blank" ->
              /\ pli' = pli + 1
              /\ UNCHANGED <<ppc, poutcome, stored, keyword_counts>>
         [] line.kind = "garbage" ->
              /\ ppc' = "exited"
              /\ poutcome' = "json_error"
              /\ UNCHANGED <<pli, stored, keyword_counts>>
         [] OTHER ->
              /\ stored' = Append(stored, StoredRow(line))
              /\ keyword_counts' =
                     IF line.keyword_mentioned \in Keywords
                     THEN [keyword_counts EXCEPT ![line.keyword_mentioned] = @ + 1]
                     ELSE keyword_counts
              /\ pli' = pli + 1
              /\ UNCHANGED <<ppc, poutcome>>
    /\ UNCHANGED <<program, env, csv_rows, figure, fileVars, producerVars, mortalityVars,
                   last_pos, plines>>

\* main: the for loop is exhausted; time.sleep(2).
ProjectSleep ==
    /\ Project /\ ppc = "store" /\ pli > Len(plines)
    /\ ppc' = "read"
    /\ UNCHANGED <<program, env, csv_rows, figure, fileVars, producerVars, mortalityVars,
                   poutcome, last_pos, plines, pli, stored, keyword_counts>>

\* KeyboardInterrupt: "Consumer stopped by user."
ProjectInterrupt ==
    /\ Project /\ ppc \in {"read", "store"}
    /\ ppc' = "exited"
    /\ poutcome' = "interrupted"
    /\ UNCHANGED <<program, env, csv_rows, figure, fileVars, producerVars, mortalityVars,
                   last_pos, plines, pli, stored, keyword_counts>>

ProjectNext == ProjectRead \/ ProjectLine \/ ProjectSleep \/ ProjectInterrupt

\* ------------------------------------------- consumer_mortality: dashboard
\* The bound of the live file in the runs that watch the dashboard.
MaxDashboardLines == 2

\* regions = sorted(set(region for cause in cause_region_stats
\*                      for region in cause_region_stats[cause]))
DashboardRegions ==
    {region \in Regions :
        \E cause \in Causes : cause_region_stats[<<cause, region>>] # <<>>}

\* What animate_dashboard reads and draws: the two bars when
\* "Heart disease" is a key of cause_gender_stats, one line per region of
\* DashboardRegions whose window is not empty, and the counter text.
DashboardSnapshot ==
    [has_bars |-> \E sex \in Sexes : cause_gender_stats[<<HeartDisease, sex>>] # <<>>,
     bars |-> [gender \in Sexes |->
                  IF \E sex \in Sexes : cause_gender_stats[<<HeartDisease, sex>>] # <<>>
                  THEN GenderRate(cause_gender_stats, gender)
                  ELSE <<0, 1>>],
     series |-> [region \in Regions |->
                    IF region \in DashboardRegions
                    THEN mortality_rates[<<HeartDisease, region>>]
                    ELSE <<>>],
     high |-> high_mortality_count]

AtAnyStatement == pc # "exited"

\* The timer of FuncAnimation fires only while the GUI event loop runs,
\* and main runs it only inside plt.pause(0.1), line 248.
AtYieldPoint == pc = "pause"

\* animate_dashboard: the callback clears the axes and draws the snapshot.
Animate ==
    /\ Mortality /\ AtYieldPoint
    /\ figure' = DashboardSnapshot
    /\ UNCHANGED <<program, env, csv_rows, fileVars, producerVars,
                   mortalityVars, projectVars>>

\* Any other writer appends one whole line (runs that watch the dashboard).
AppendLineDashboard ==
    /\ env = "any"
    /\ Len(file) < MaxDashboardLines
    /\ \E l \in AnyLines : file' = Append(file, l)
    /\ file_exists' = TRUE
    /\ UNCHANGED <<program, env, csv_rows, figure, producerVars,
                   mortalityVars, projectVars>>

InitDashboard == Init /\ program = "consumer_mortality" /\ env = "any"

NextDashboard == AppendLineDashboard \/ MortalityNext \/ Animate

\* consumer_mortality with its dashboard, fed by an arbitrary writer.
SpecDashboard == InitDashboard /\ [][NextDashboard]_vars

\* ------------------------------------------------- the generator by itself
\* How many messages one run of the generator is followed for.
MaxGenerated == 1500

\* next(generate_mortality_messages(csv)): the caller takes one message.
Generate ==
    /\ message_count < MaxGenerated
    /\ GeneratorStep
    /\ UNCHANGED <<program, env, csv_rows, figure, fileVars, mortalityVars,
                   projectVars>>

InitGenerator ==
    /\ InitFresh
    /\ program = "consumer_mortality" /\ env = "producer"
    /\ csv_rows \in CsvFiles

NextGenerator == Generate

\* One run of generate_mortality_messages on one of the CSV files.
SpecGenerator == InitGenerator /\ [][NextGenerator]_vars

\* ------------------------------------------------------------ specification
Next == Produce \/ AppendLine \/ MortalityNext \/ ProjectNext

Spec == Init /\ [][Next]_vars

\* ------------------------------------------------------------- properties
\* main is between two records: no call of process_and_store_message is
\* under way.
Quiescent == Mortality /\ pc \in {"poll", "scan", "mark", "for", "pause"}

Min(a, b) == IF a < b THEN a ELSE b
LastN(s, n) == SubSeq(s, Len(s) - n + 1, Len(s))
Range(s) == {s[i] : i \in DOMAIN s}
Distinct(s) == \A i, j \in DOMAIN s : i # j => s[i] # s[j]

RECURSIVE SumLens(_, _)
SumLens(f, keys) ==
    IF keys = {} THEN 0
    ELSE LET key == CHOOSE k \in keys : TRUE
         IN  Len(f[key]) + SumLens(f, keys \ {key})

\* The rates of the accepted records of one (cause, sex) group, in order.
RECURSIVE GenderContribs(_, _, _)
GenderContribs(recs, cause, sex) ==
    IF recs = <<>> THEN <<>>
    ELSE (IF Head(recs).cause = cause /\ Head(recs).sex = sex
          THEN <<Head(recs).rate>> ELSE <<>>)
         \o GenderContribs(Tail(recs), cause, sex)

\* The rates the accepted records of one cause bring to the window keyed
\* (cause, x): once as their region, once as their sex.
RECURSIVE WindowContribs(_, _, _)
WindowContribs(recs, cause, x) ==
    IF recs = <<>> THEN <<>>
    ELSE (IF Head(recs).cause = cause /\ Head(recs).region = x
          THEN <<Head(recs).rate>> ELSE <<>>)
         \o (IF Head(recs).cause = cause /\ Head(recs).sex = x
             THEN <<Head(recs).rate>> ELSE <<>>)
         \o WindowContribs(Tail(recs), cause, x)

\* C1: an identity author_timestamp is returned by read_latest_messages at
\* most once over all polls, so no identity is folded into the aggregates
\* twice: the accepted records have pairwise distinct identities and,
\* between records, cause_region_stats and cause_gender_stats hold exactly
\* one rate per accepted identity.
C1_IdempotentReplay ==
    /\ Distinct(returned)
    /\ Distinct(IdsOf(ingested))
    /\ Quiescent =>
         /\ SumLens(cause_region_stats, Causes \X Regions)
                = Cardinality(Range(IdsOf(ingested)))
         /\ SumLens(cause_gender_stats, Causes \X Sexes)
                = Cardinality(Range(IdsOf(ingested)))

\* A later poll re-reads a file whose first line was returned by an
\* earlier poll and whose second line re-appends that identity with other
\* content; the scan has passed both and is at the third line.
C1_Witness ==
    /\ Mortality /\ pc = "mark" /\ li = 3
    /\ returned = <<MsgId(lines[1])>>
    /\ lines[2].kind = "obj" /\ lines[1] # lines[2]
    /\ MsgId(lines[2]) = MsgId(lines[1])
    /\ Len(new_messages) = 1

\* C2: between records, the mean plotted for a gender of "Heart disease"
\* is the arithmetic mean of the rates of all accepted records of that
\* group (0 when there is none), and every (cause, sex) list holds all the
\* rates ever contributed to it: nothing is evicted.
C2_MeanOfAllContributions ==
    Quiescent =>
        \A sex \in Sexes :
            /\ LET contribs == GenderContribs(ingested, HeartDisease, sex)
                   mean == GenderRate(cause_gender_stats, sex)
               IN  IF contribs = <<>> THEN mean = <<0, 1>>
                   ELSE mean[1] * Len(contribs) = SumSeq(contribs) * mean[2]
            /\ \A cause \in Causes :
                   cause_gender_stats[<<cause, sex>>]
                       = GenderContribs(ingested, cause, sex)

C2_Witness ==
    /\ Quiescent
    /\ Len(cause_gender_stats[<<HeartDisease, "Male">>]) >= 3
    /\ Cardinality(Range(cause_gender_stats[<<HeartDisease, "Male">>])) >= 2

\* C3: every window holds at most 20 values and equals the last
\* min(k, 20) of the k values appended to its key, in arrival order.
C3_WindowIsLastTwenty ==
    \A key \in WindowKeys :
        /\ Len(mortality_rates[key]) <= WindowCapacity
        /\ mortality_rates[key]
               = LastN(appended[key], Min(Len(appended[key]), WindowCapacity))

\* 25 values were appended to one key: the window is values[5:25].
C3_Witness ==
    \E key \in WindowKeys :
        /\ Len(appended[key]) = 25
        /\ mortality_rates[key] = SubSeq(appended[key], 6, 25)
        /\ mortality_rates[key] # SubSeq(appended[key], 1, 20)

\* C4: between records, high_mortality_count is the number of accepted
\* records whose rate is at least 100.
C4_HighCount ==
    Quiescent =>
        high_mortality_count
            = Cardinality({i \in DOMAIN ingested : ingested[i].rate >= HighThreshold})

C4_Witness ==
    /\ Quiescent
    /\ \E i, j, k \in DOMAIN ingested :
          /\ ingested[i].rate = HighThreshold
          /\ ingested[j].rate < HighThreshold
          /\ ingested[k].rate > HighThreshold
    /\ high_mortality_count >= 2

\* C5 as stated: between records, the window keyed (cause, x) holds the
\* last rates of the accepted records of that cause with region or sex x,
\* whatever the cause.
C5_AllCausesWindowed ==
    Quiescent =>
        \A key \in WindowKeys :
            mortality_rates[key]
                = LastN(WindowContribs(ingested, key[1], key[2]),
                        Min(Len(WindowContribs(ingested, key[1], key[2])),
                            WindowCapacity))

\* C5 amended: that holds for the cause "Heart disease"; the windows of
\* every other cause stay empty.
C5_HeartDiseaseWindowed ==
    Quiescent =>
        \A key \in WindowKeys :
            LET expected ==
                    IF key[1] = HeartDisease
                    THEN WindowContribs(ingested, key[1], key[2])
                    ELSE <<>>
            IN  mortality_rates[key]
                    = LastN(expected, Min(Len(expected), WindowCapacity))

C5_Witness ==
    /\ Quiescent
    /\ \E i, j \in DOMAIN ingested :
          /\ ingested[i].cause = HeartDisease
          /\ ingested[j].cause # HeartDisease
          /\ mortality_rates[<<HeartDisease, ingested[i].region>>] # <<>>
          /\ mortality_rates[<<HeartDisease, ingested[i].sex>>] # <<>>

\* A line that is a complete record: a JSON object whose rate and se
\* convert and that has every field process_and_store_message reads.
WellFormed(line) ==
    /\ line.kind = "obj"
    /\ ~FloatRaises(line.rate) /\ ~FloatRaises(line.se)
    /\ line.has_message

\* C6: a bad record is skipped and the stream goes on: no record with a
\* missing field ends the poll loop, and when read_latest_messages
\* returns, every well-formed line of the file it read has been returned
\* by this or an earlier call, also the lines after a malformed one.
C6_BadRecordSkipped ==
    [][ /\ outcome' # "key_error"
        /\ (pc = "scan" /\ pc' = "for") =>
              \A i \in DOMAIN lines :
                  WellFormed(lines[i]) =>
                      MsgId(lines[i]) \in Range(returned') ]_vars

\* C7: a message that process_and_store_message goes on to aggregate has
\* a rate and an se that are present and numeric.
C7_BadRateRejected ==
    (Mortality /\ pc \in {"win_region", "win_sex", "stat_region",
                          "stat_gender", "high", "db", "print"}) =>
        /\ Head(messages).rate.k = "num"
        /\ Head(messages).se.k = "num"

\* C8: a failing database write does not end the poll loop.
C8_DbFailureNotFatal == outcome = "db_error" => pc # "exited"

\* C9: no consumer's poll loop ends because the live file is absent.
C9_AbsentFileTolerated ==
    /\ poutcome = "file_not_found" => ppc # "exited"
    /\ (Mortality /\ ~file_exists) => outcome \in {"running", "interrupted"}

\* C10: when KeyboardInterrupt has ended the poll loop, every record the
\* last read returned is wholly ingested: each accepted record has brought
\* its rate to both aggregate stores, to its windows, to the counter and
\* to the database, no returned message is left unprocessed, and every
\* identity marked in processed_messages was returned.
C10_NoPartialIngestion ==
    (Mortality /\ pc = "exited" /\ outcome = "interrupted") =>
        /\ SumLens(cause_region_stats, Causes \X Regions) = Len(ingested)
        /\ SumLens(cause_gender_stats, Causes \X Sexes) = Len(ingested)
        /\ SumLens(appended, WindowKeys)
               = 2 * Cardinality({i \in DOMAIN ingested :
                                      ingested[i].cause = HeartDisease})
        /\ high_mortality_count
               = Cardinality({i \in DOMAIN ingested :
                                  ingested[i].rate >= HighThreshold})
        /\ Len(db_rows) = Len(ingested)
        /\ messages = <<>>
        /\ processed_messages \subseteq Range(returned)

\* ------------------------------------------------- properties: dashboard
\* The snapshot of a state in which exactly the records recs have been
\* ingested, each of them wholly.
SnapshotOfRecords(recs) ==
    LET hasHeart == \E i \in DOMAIN recs : recs[i].cause = HeartDisease
        mean(sex) ==
            LET contribs == GenderContribs(recs, HeartDisease, sex)
            IN  IF contribs = <<>> THEN <<0, 1>>
                ELSE <<SumSeq(contribs), Len(contribs)>>
        window(region) ==
            LET contribs == WindowContribs(recs, HeartDisease, region)
            IN  LastN(contribs, Min(Len(contribs), WindowCapacity))
    IN  [has_bars |-> hasHeart,
         bars |-> [gender \in Sexes |-> IF hasHeart THEN mean(gender) ELSE <<0, 1>>],
         series |-> [region \in Regions |->
                        IF \E i \in DOMAIN recs : recs[i].region = region
                        THEN window(region) ELSE <<>>],
         high |-> Cardinality({i \in DOMAIN recs : recs[i].rate >= HighThreshold})]

\* C11: whatever animate_dashboard has drawn is the snapshot of a whole
\* number of wholly ingested records: of the first n accepted records, for
\* some n, never of a record that is in a window but not yet in the
\* aggregate lists or the counter.
C11_SnapshotOfWholeRecords ==
    figure # NoFigure =>
        \E n \in 0..Len(ingested) :
            figure = SnapshotOfRecords(SubSeq(ingested, 1, n))

\* The figure shows one record while a second one is being ingested.
C11_Witness ==
    /\ figure # NoFigure
    /\ figure.has_bars /\ figure.high = 1
    /\ Len(ingested) = 2
    /\ pc \in {"win_sex", "stat_region", "stat_gender", "high"}

\* ------------------------------------------------- properties: generator
\* C12: each message is stamped one minute after the one before it, and
\* no earlier message of the run carries the timestamp of the latest one.
C12_TimestampsAdvanceOneMinute ==
    message_count >= 1 =>
        /\ generated.timestamp = TimestampStr(message_count - 1)
        /\ message_count >= 2 =>
              TimestampMinutes(message_count - 1)
                  = TimestampMinutes(message_count - 2) + 1
        /\ \A m \in 0..(message_count - 2) :
              TimestampStr(m) # generated.timestamp

\* C14: the message just generated carries the band of its own rate, so
\* it says "High" exactly when the consumer would flag it.
C14_KeywordIsBandOfOwnRate ==
    generated.kind = "obj" =>
        LET rate == generated.rate.v
            keyword == generated.keyword_mentioned
        IN  /\ keyword = "High" <=> rate >= 100
            /\ keyword = "Medium" <=> (50 <= rate /\ rate < 100)
            /\ keyword = "Low" <=> (0 <= rate /\ rate < 50)
            /\ keyword = "High" <=> IsHighMortality(FloatOf(generated.rate))

\* ------------------------------------------- properties: project_consumer
IsObject(line) == line.kind = "obj"

\* The rows store_message makes of the JSON objects among the lines.
RowsOf(ls) ==
    LET objects == SelectSeq(ls, IsObject)
    IN  [i \in DOMAIN objects |-> StoredRow(objects[i])]

\* The lines of the file that end at or before byte pos.
LinesBefore(f, pos) ==
    LET ks == {k \in 0..Len(f) : FileBytes(SubSeq(f, 1, k)) <= pos}
    IN  SubSeq(f, 1, CHOOSE k \in ks : \A j \in ks : j <= k)

\* The lines read_new_messages has returned that the for loop of main has
\* not reached yet.
PendingLines ==
    IF ppc = "store" THEN SubSeq(plines, pli, Len(plines)) ELSE <<>>

\* C13: unless the user has stopped the consumer, the JSON lines of the
\* file that lie before last_pos are exactly the rows stored so far
\* followed by those still waiting in the current batch, in file order:
\* no line before the offset is skipped and none is stored twice.
C13_EveryLineStoredOnceInOrder ==
    (Project /\ poutcome # "interrupted") =>
        stored \o RowsOf(PendingLines) = RowsOf(LinesBefore(file, last_pos))

\* C13, the part about the offset: last_pos never decreases and each read
\* returns the lines between the old offset and the new one.
C13_OffsetAdvances ==
    [][/\ last_pos' >= last_pos
       /\ (ppc = "read" /\ ppc' = "store") =>
              /\ plines' = SubSeq(file, Len(LinesBefore(file, last_pos)) + 1, Len(file))
              /\ last_pos' = FileBytes(file)]_vars

\* ------------------------------------------ properties: memory and database
\* C15: when a poll iteration has run to its end (main is at plt.pause),
\* table mortality_analytics holds one row per rate held in
\* cause_region_stats, and as many rows flagged is_high_mortality as
\* high_mortality_count says.
C15_DatabaseInStepWithMemory ==
    (Mortality /\ pc = "pause") =>
        /\ Len(db_rows) = SumLens(cause_region_stats, Causes \X Regions)
        /\ Cardinality({i \in DOMAIN db_rows : db_rows[i].is_high_mortality})
               = high_mortality_count

\* An iteration has ended with a flagged row and an unflagged row stored.
C15_Witness ==
    /\ Mortality /\ pc = "pause"
    /\ \E i \in DOMAIN db_rows : db_rows[i].is_high_mortality
    /\ \E i \in DOMAIN db_rows : ~db_rows[i].is_high_mortality
    /\ high_mortality_count >= 1

====
